---- MODULE Spec2Model ----
(***************************************************************************)
(* The interrupt-latched capacitance meter (src/unnamed/part_004): the     *)
(* range table, the charge / capture / discharge loop, the three interrupt *)
(* handlers, the auto-range policy and the zero calibration, together with *)
(* the timer-1 / comparator / timer-3 hardware the code programs.          *)
(*                                                                         *)
(* The main program is cut into steps that each touch at most one shared   *)
(* location (a flag, `captured`, or one hardware register), so that an     *)
(* interrupt between two steps covers every interleaving of the machine    *)
(* code.  Handlers run with interrupts disabled and are therefore atomic.  *)
(***************************************************************************)
EXTENDS Integers, Sequences, FiniteSets

(***************************************************************************)
(* A faulty table: the 10 kOhm and the 270 Ohm rows of prescaler 1 and 8   *)
(* have changed places, so the resistance is not sorted.                   *)
(***************************************************************************)
ranges_Unsorted ==
    << [R |-> 270,     prescale |-> 1024, CS |-> 5, pin_mask |-> 1, min |-> 16384, grow |-> 4],
       [R |-> 270,     prescale |-> 256,  CS |-> 4, pin_mask |-> 1, min |-> 16384, grow |-> 4],
       [R |-> 270,     prescale |-> 64,   CS |-> 3, pin_mask |-> 1, min |-> 8192,  grow |-> 8],
       [R |-> 10000,   prescale |-> 8,    CS |-> 2, pin_mask |-> 2, min |-> 8192,  grow |-> 8],
       [R |-> 10000,   prescale |-> 1,    CS |-> 1, pin_mask |-> 2, min |-> 5243,  grow |-> 13],
       [R |-> 270,     prescale |-> 8,    CS |-> 2, pin_mask |-> 1, min |-> 8192,  grow |-> 8],
       [R |-> 270,     prescale |-> 1,    CS |-> 1, pin_mask |-> 1, min |-> 14156, grow |-> 5],
       [R |-> 1000000, prescale |-> 8,    CS |-> 2, pin_mask |-> 4, min |-> 8192,  grow |-> 8],
       [R |-> 1000000, prescale |-> 1,    CS |-> 1, pin_mask |-> 4, min |-> 0,     grow |-> 255] >>

(***************************************************************************)
(* A faulty table: the 1 MOhm row of prescaler 8 is replaced by a 10 kOhm  *)
(* row of prescaler 1024, which leaves a gap before the last row.          *)
(***************************************************************************)
ranges_Gap ==
    << [R |-> 270,     prescale |-> 1024, CS |-> 5, pin_mask |-> 1, min |-> 16384, grow |-> 4],
       [R |-> 270,     prescale |-> 256,  CS |-> 4, pin_mask |-> 1, min |-> 16384, grow |-> 4],
       [R |-> 270,     prescale |-> 64,   CS |-> 3, pin_mask |-> 1, min |-> 8192,  grow |-> 8],
       [R |-> 270,     prescale |-> 8,    CS |-> 2, pin_mask |-> 1, min |-> 8192,  grow |-> 8],
       [R |-> 270,     prescale |-> 1,    CS |-> 1, pin_mask |-> 1, min |-> 14156, grow |-> 5],
       [R |-> 10000,   prescale |-> 8,    CS |-> 2, pin_mask |-> 2, min |-> 8192,  grow |-> 8],
       [R |-> 10000,   prescale |-> 1,    CS |-> 1, pin_mask |-> 2, min |-> 5243,  grow |-> 13],
       [R |-> 10000,   prescale |-> 1024, CS |-> 5, pin_mask |-> 2, min |-> 8192,  grow |-> 8],
       [R |-> 1000000, prescale |-> 1,    CS |-> 1, pin_mask |-> 4, min |-> 0,     grow |-> 255] >>

(***************************************************************************)
(* The compiled-in range table.  Index 0 of the C array is ranges[1] here. *)
(* The engine reads it through the variable `table`, so that the same      *)
(* code can be run with another table.                                     *)
(***************************************************************************)
ranges ==
    << [R |-> 270,     prescale |-> 1024, CS |-> 5, pin_mask |-> 1, min |-> 16384, grow |-> 4],
       [R |-> 270,     prescale |-> 256,  CS |-> 4, pin_mask |-> 1, min |-> 16384, grow |-> 4],
       [R |-> 270,     prescale |-> 64,   CS |-> 3, pin_mask |-> 1, min |-> 8192,  grow |-> 8],
       [R |-> 270,     prescale |-> 8,    CS |-> 2, pin_mask |-> 1, min |-> 8192,  grow |-> 8],
       [R |-> 270,     prescale |-> 1,    CS |-> 1, pin_mask |-> 1, min |-> 14156, grow |-> 5],
       [R |-> 10000,   prescale |-> 8,    CS |-> 2, pin_mask |-> 2, min |-> 8192,  grow |-> 8],
       [R |-> 10000,   prescale |-> 1,    CS |-> 1, pin_mask |-> 2, min |-> 5243,  grow |-> 13],
       [R |-> 1000000, prescale |-> 8,    CS |-> 2, pin_mask |-> 4, min |-> 8192,  grow |-> 8],
       [R |-> 1000000, prescale |-> 1,    CS |-> 1, pin_mask |-> 4, min |-> 0,     grow |-> 255] >>

\* r_index at boot
BootIndex == 4

\* the value the overflow handler latches, and the full scale of timer 1
FullScale == 65535

\* uint8_t / uint16_t arithmetic
U8(x) == x % 256
U16(x) == x % 65536

\* bit n of a port register
Bit(x, n) == (x \div (2 ^ n)) % 2

(***************************************************************************)
(* Timer values at which the asynchronous capture source may cross the     *)
(* threshold: a count below every non-zero threshold of the table, the two *)
(* counts around the calibration ceiling, a count at or above every        *)
(* threshold, and the last two counts before the counter wraps.            *)
(***************************************************************************)
Counts == {0, 2422, 2423, 16384, FullScale - 1, FullScale}


\* how far the count of pacing ticks is followed when it runs ahead of the
\* count of charge() calls
MaxLag == 1

\* how many charge() calls since boot are counted
MaxCycles == 6

VARIABLES
    pc,             \* the main program's position
    sleeping,       \* the CPU executed `sleep` and has not been woken
    iret,           \* a handler has just returned: one more main step runs first
    SREG_I,         \* global interrupt enable
    r_index,        \* active range index
    captured,       \* count latched by the timer-1 handlers
    measured,       \* "result ready" flag
    refresh_ready,  \* pacing flag
    zeroed,         \* calibration established
    zerocap,        \* calibration offset
    timer,          \* loop()'s local copy of `captured`
    DDRF, PORTF,    \* port F direction and data registers
    PRTIM1,         \* PRR0.PRTIM1: timer 1 powered down
    CS1,            \* TCCR1B clock select bits (0 = stopped)
    TCNT1, ICR1,    \* timer-1 counter and input-capture register
    ICF1, TOV1,     \* timer-1 capture / overflow interrupt flags
    T3on, OCF3A,    \* timer 3 running, its compare-match flag
    T3due,          \* timer 3 has counted up to just below OCR3A
    ACO,            \* comparator output: threshold crossed in this charge
    out,            \* the result line print_cap emitted in this iteration
    verbose,        \* the "Zeroing to" line print_cap emitted in this iteration
    source,         \* the capture source driving the comparator (never changes)
    fired,          \* timer-1 handlers that have run since charge() was entered
    unpaced,        \* discharge() has begun and no pacing tick has fired since
    table,          \* the range table the build was given (never written)
    tally           \* accounting, kept only by the specification that counts:
                    \* lead = charge() calls minus pacing ticks, not below -MaxLag;
                    \* first = the first timer-1 event since charge() was entered;
                    \* cycles = charge() calls since boot, not above MaxCycles

vars ==
    << pc, sleeping, iret, SREG_I, r_index, captured, measured, refresh_ready,
       zeroed, zerocap, timer, DDRF, PORTF, PRTIM1, CS1, TCNT1, ICR1, ICF1,
       TOV1, T3on, T3due, OCF3A, ACO, out, verbose, source, fired, unpaced, table,
       tally >>

hw == << DDRF, PORTF, PRTIM1, CS1, TCNT1, ICR1, ICF1, TOV1, T3on, T3due, OCF3A, ACO >>
engine == << r_index, zeroed, zerocap, timer, out, verbose >>
flags == << captured, measured, refresh_ready >>
history == << fired, unpaced, tally >>

NoTally == [on |-> FALSE, lead |-> 0, first |-> "none", cycles |-> 0]
env == << source, table >>

\* sizeof(ranges)/sizeof(*ranges)
n_ranges == Len(table)

\* ranges[i] of the C code, i counted from 0
Range(i) == table[i + 1]


(***************************************************************************)
(* Capacitance values.  print_cap computes C = timer*prescale/F_CPU/taus/R *)
(* in floating point.  The model keeps C exactly, as the integer           *)
(* timer * prescale * (CapScale / R), i.e. in units of                     *)
(* 1 / (CapScale * F_CPU * taus) farad, written with two limbs             *)
(* hi * Limb + lo so that every intermediate value fits 31 bits.           *)
(***************************************************************************)
Limb == 10000

\* least common multiple of the three resistor values
CapScale == 27000000

CZero == [hi |-> 0, lo |-> 0]

CLess(a, b) == a.hi < b.hi \/ (a.hi = b.hi /\ a.lo < b.lo)

\* faulty variant: the difference is not floored at zero
CSubFloor_NoFloor(a, b) ==
    IF a.lo >= b.lo \/ CLess(a, b) THEN [hi |-> a.hi - b.hi, lo |-> a.lo - b.lo]
    ELSE [hi |-> a.hi - b.hi - 1, lo |-> a.lo + Limb - b.lo]

\* C -= zerocap; if (C < 0) C = 0;
CSubFloor(a, b) ==
    IF CLess(a, b) THEN CZero
    ELSE IF a.lo >= b.lo THEN [hi |-> a.hi - b.hi, lo |-> a.lo - b.lo]
    ELSE [hi |-> a.hi - b.hi - 1, lo |-> a.lo + Limb - b.lo]

\* faulty variant: timer * prescale is computed in 16 bits
RawC_Wraps(t, idx) ==
    LET P == U16(t * Range(idx).prescale)
        k == CapScale \div Range(idx).R
        low == (P % Limb) * k
    IN  [hi |-> (P \div Limb) * k + low \div Limb, lo |-> low % Limb]

\* faulty variant: the prescaler is left out of the time
RawC_NoPrescale(t, idx) ==
    LET P == t
        k == CapScale \div Range(idx).R
        low == (P % Limb) * k
    IN  [hi |-> (P \div Limb) * k + low \div Limb, lo |-> low % Limb]

\* float C = t/taus/R with t = timer/f and f = F_CPU/prescale
RawC(t, idx) ==
    LET P == t * Range(idx).prescale
        k == CapScale \div Range(idx).R
        low == (P % Limb) * k
    IN  [hi |-> (P \div Limb) * k + low \div Limb, lo |-> low % Limb]

\* 100e-12 F in the model's unit is 100e-12 * 27e6 * 16e6 * 1.514128 =
\* 65410.33: an integer C is below it exactly when it is below 65411.
Ceiling100pF == [hi |-> 6, lo |-> 5411]

(***************************************************************************)
(* print_cap(timer): the calibration update, the offset subtraction and    *)
(* the emitted line.  sign is the character printed after 'C': ">" for an  *)
(* overflow, "=" for a measurement; C is the number print_si receives; idx *)
(* is the r_index printed with it.                                         *)
(***************************************************************************)
\* faulty variant: the calibration branch is not guarded by !zeroed
print_cap_zeroes_Again(t, idx, z) ==
    idx = n_ranges - 1 /\ CLess(RawC(t, idx), Ceiling100pF)

\* faulty variant: the calibration branch does not test r_index
print_cap_zeroes_AnyIndex(t, idx, z) ==
    ~z /\ CLess(RawC(t, idx), Ceiling100pF)

print_cap_zeroes(t, idx, z) ==
    ~z /\ idx = n_ranges - 1 /\ CLess(RawC(t, idx), Ceiling100pF)

print_cap(t, idx, z, zc) ==
    LET C0 == RawC(t, idx)
        z1 == z \/ print_cap_zeroes(t, idx, z)
        zc1 == IF print_cap_zeroes(t, idx, z) THEN C0 ELSE zc
        C1 == IF z1 THEN CSubFloor(C0, zc1) ELSE C0
    IN  [zeroed |-> z1,
         zerocap |-> zc1,
         out |-> [sign |-> IF t = FullScale THEN ">" ELSE "=",
                  C |-> C1,
                  idx |-> idx]]

(***************************************************************************)
(* Faulty variants of rerange, used to show that the properties below      *)
(* depend on the policy as written.                                        *)
(***************************************************************************)
\* the decrement is not guarded by r_index > 0
rerange_NoFloor(t, idx) ==
    IF t = FullScale
    THEN idx - 1
    ELSE IF t < Range(idx).min THEN U8(idx + 1) ELSE idx

\* the guard of the decrement is r_index > 1
rerange_FloorAtOne(t, idx) ==
    IF t = FullScale
    THEN IF idx > 1 THEN idx - 1 ELSE idx
    ELSE IF t < Range(idx).min THEN U8(idx + 1) ELSE idx

\* the overflow branch of the QUICK_RANGE build: jump to index 1
rerange_QuickOverflow(t, idx) ==
    IF t = FullScale
    THEN IF idx > 1 THEN 1 ELSE IF idx > 0 THEN idx - 1 ELSE idx
    ELSE IF t < Range(idx).min THEN U8(idx + 1) ELSE idx

\* the comparison with the threshold is <= instead of <
rerange_LessEq(t, idx) ==
    IF t = FullScale
    THEN IF idx > 0 THEN idx - 1 ELSE idx
    ELSE IF t <= Range(idx).min THEN U8(idx + 1) ELSE idx

\* a high-water mark as well as the overflow moves the index down
rerange_HighWater(t, idx) ==
    IF t >= 60000
    THEN IF idx > 0 THEN idx - 1 ELSE idx
    ELSE IF t < Range(idx).min THEN U8(idx + 1) ELSE idx

(***************************************************************************)
(* rerange(timer) of the default build (QUICK_RANGE 0): the new r_index.   *)
(***************************************************************************)
rerange(t, idx) ==
    IF t = FullScale
    THEN IF idx > 0 THEN idx - 1 ELSE idx
    ELSE IF t < Range(idx).min THEN U8(idx + 1) ELSE idx

(***************************************************************************)
(* rerange(timer) of the opt-in build (QUICK_RANGE 1).  The loop           *)
(*   for (; timer < ranges[r_index].min; timer *= ranges[r_index].grow)    *)
(*       r_index++;                                                        *)
(* increments r_index in its body and then evaluates the update            *)
(* expression, which therefore reads the grow of the row just entered;     *)
(* `timer` is the uint16_t parameter, so the product is reduced modulo     *)
(* 2^16.                                                                   *)
(***************************************************************************)
RECURSIVE rerange_QUICK_RANGE_for(_, _)
rerange_QUICK_RANGE_for(t, idx) ==
    IF t < Range(idx).min
    THEN rerange_QUICK_RANGE_for(U16(t * Range(U8(idx + 1)).grow), U8(idx + 1))
    ELSE idx

\* faulty variant: the decrement at index 1 or below is not guarded
rerange_QUICK_RANGE_NoFloor(t, idx) ==
    IF t = FullScale
    THEN IF idx > 1 THEN 1 ELSE idx - 1
    ELSE rerange_QUICK_RANGE_for(t, idx)

rerange_QUICK_RANGE(t, idx) ==
    IF t = FullScale
    THEN IF idx > 1 THEN 1 ELSE IF idx > 0 THEN idx - 1 ELSE idx
    ELSE rerange_QUICK_RANGE_for(t, idx)

NoLine == [sign |-> "", C |-> CZero, idx |-> 0]

\* no "Zeroing to" line
NoNote == [text |-> "", C |-> CZero]

(***************************************************************************)
(* Capture sources.  The comparator is driven by the circuit under test:   *)
(*   "any"      the threshold may be crossed at any moment of a charge, or *)
(*              not at all before the counter wraps;                       *)
(*   "overflow" the threshold is never crossed (capacitance too large for  *)
(*              every range);                                              *)
(*   "fixed"    a fixed capacitance C: in every cycle the threshold is     *)
(*              crossed when the counter reads the count C produces at     *)
(*              the active range, or not at all when that count does not   *)
(*              fit the counter; the counter runs on after the crossing    *)
(*              until stop_capture(), so it may still wrap.                *)
(***************************************************************************)
\* capacitance units per count at range idx (the factor of RawC)
Weight(idx) == Range(idx).prescale * (CapScale \div Range(idx).R)

\* The count at which capacitance C crosses the threshold at range idx:
\* the largest t with RawC(t, idx) <= C, or FullScale + 1 when the counter
\* wraps first.
CountOf(C, idx) ==
    LET w == Weight(idx)
        t == IF w % Limb = 0 THEN C.hi \div (w \div Limb)
             ELSE IF C.hi >= 200000 THEN FullScale + 1
             ELSE (C.hi * Limb + C.lo) \div w
    IN  IF t > FullScale THEN FullScale + 1 ELSE t

AnySource == [kind |-> "any", C |-> CZero]
OverflowSource == [kind |-> "overflow", C |-> CZero]
FixedSource(C) == [kind |-> "fixed", C |-> C]

\* The fixed capacitances: for every range j, the capacitances that read
\* just below its threshold, exactly its threshold, the last two counts of
\* the counter, and one count more than fits, at that range.
CapReadings(j) ==
    {Range(j).min - 1, Range(j).min, FullScale - 1, FullScale, FullScale + 1}
        \cap (0 .. FullScale + 1)

\* ... and the two capacitances around the calibration ceiling, which read
\* 2422 and 2423 at the last range.
Caps ==
    UNION {{RawC(n, j) : n \in CapReadings(j)} : j \in 0 .. n_ranges - 1}
        \cup {RawC(2422, n_ranges - 1), RawC(2423, n_ranges - 1)}

Sources == {AnySource, OverflowSource} \cup {FixedSource(C) : C \in Caps}

\* counter values the model distinguishes for a source at range idx
Stops(src, idx) ==
    CASE src.kind = "any" -> Counts
      [] src.kind = "overflow" -> {FullScale}
      [] src.kind = "fixed" -> {CountOf(src.C, idx), FullScale} \cap (0 .. FullScale)


(***************************************************************************)
(* Hardware conditions                                                     *)
(***************************************************************************)
\* some resistor pin PF0-PF2 is an output at the low (charging) level
Charging == \E n \in 0 .. 2 : Bit(DDRF, n) = 1 /\ Bit(PORTF, n) = 0

\* the resistor pins that are outputs at the low (charging) level
Driven == {n \in 0 .. 2 : Bit(DDRF, n) = 1 /\ Bit(PORTF, n) = 0}

\* timer 1 is clocked: powered and a prescaler selected
Running1 == CS1 # 0 /\ ~PRTIM1

\* an interrupt is requested and enabled
Pending == SREG_I /\ (ICF1 \/ TOV1 \/ OCF3A)

\* The main program executes its next step: the CPU is awake, and a pending
\* interrupt is taken first unless a handler has just returned.
Run == ~sleeping /\ (iret \/ ~Pending)

Step(from, to) ==
    /\ pc = from
    /\ Run
    /\ pc' = to
    /\ iret' = FALSE
    /\ UNCHANGED << sleeping, env >>

Init ==
    /\ table = ranges
    /\ pc = "setup_power"
    /\ sleeping = FALSE
    /\ iret = FALSE
    /\ SREG_I = FALSE
    /\ r_index = BootIndex
    /\ captured = 0
    /\ measured = FALSE
    /\ refresh_ready = FALSE
    /\ zeroed = FALSE
    /\ zerocap = CZero
    /\ timer = 0
    /\ DDRF = 0
    /\ PORTF = 0
    /\ PRTIM1 = FALSE
    /\ CS1 = 0
    /\ TCNT1 = 0
    /\ ICR1 = 0
    /\ ICF1 = FALSE
    /\ TOV1 = FALSE
    /\ T3on = FALSE
    /\ T3due = FALSE
    /\ OCF3A = FALSE
    /\ ACO = FALSE
    /\ out = NoLine
    /\ verbose = NoNote
    /\ fired = {}
    /\ unpaced = FALSE
    /\ tally = NoTally
    /\ source \in Sources

(***************************************************************************)
(* setup()                                                                 *)
(***************************************************************************)
\* cli(); setup_power(): PRR0 = 0xFF
setup_power ==
    /\ Step("setup_power", "setup_ports_DDRF")
    /\ SREG_I' = FALSE
    /\ PRTIM1' = TRUE
    /\ UNCHANGED << engine, flags, history >>
    /\ UNCHANGED << DDRF, PORTF, CS1, TCNT1, ICR1, ICF1, TOV1, T3on, T3due, OCF3A, ACO >>

\* setup_ports(): DDRF = B00000111
setup_ports_DDRF ==
    /\ Step("setup_ports_DDRF", "setup_ports_PORTF")
    /\ DDRF' = 7
    /\ UNCHANGED << SREG_I, engine, flags, history >>
    /\ UNCHANGED << PORTF, PRTIM1, CS1, TCNT1, ICR1, ICF1, TOV1, T3on, T3due, OCF3A, ACO >>

\* setup_ports(): PORTF = 0xFF
setup_ports_PORTF ==
    /\ Step("setup_ports_PORTF", "setup_capture")
    /\ PORTF' = 255
    /\ ACO' = FALSE
    /\ UNCHANGED << SREG_I, engine, flags, history >>
    /\ UNCHANGED << DDRF, PRTIM1, CS1, TCNT1, ICR1, ICF1, TOV1, T3on, T3due, OCF3A >>

\* setup_comptor(); setup_capture(): PRR0 &= ~(1 << PRTIM1), TIMSK1, TCCR1A
setup_capture ==
    /\ Step("setup_capture", "setup_refresh")
    /\ PRTIM1' = FALSE
    /\ UNCHANGED << SREG_I, engine, flags, history >>
    /\ UNCHANGED << DDRF, PORTF, CS1, TCNT1, ICR1, ICF1, TOV1, T3on, T3due, OCF3A, ACO >>

\* setup_refresh(): timer 3 counts to OCR3A = 31250 at 1/256
setup_refresh ==
    /\ Step("setup_refresh", "setup_sei")
    /\ T3on' = TRUE
    /\ UNCHANGED << SREG_I, engine, flags, history >>
    /\ UNCHANGED << DDRF, PORTF, PRTIM1, CS1, TCNT1, ICR1, ICF1, TOV1, T3due, OCF3A, ACO >>

\* setup_serial(); sei(); and loop() is entered
setup_sei ==
    /\ Step("setup_sei", "charge_DDRF")
    /\ SREG_I' = TRUE
    /\ UNCHANGED << engine, flags, history, hw >>

(***************************************************************************)
(* loop(): charge()                                                        *)
(***************************************************************************)
\* faulty variant: the pin is driven to the charging level at once, before
\* start_capture() has run
charge_DDRF_DrivesFirst ==
    /\ Step("charge_DDRF", "start_capture_PRR0")
    /\ DDRF' = Range(r_index).pin_mask
    /\ PORTF' = 248
    /\ fired' = {}
    /\ tally' = IF tally.on
                THEN [tally EXCEPT !.lead = @ + 1, !.first = "none",
                                   !.cycles = IF @ < MaxCycles THEN @ + 1 ELSE @]
                ELSE tally
    /\ UNCHANGED unpaced
    /\ UNCHANGED << SREG_I, engine, flags >>
    /\ UNCHANGED << PRTIM1, CS1, TCNT1, ICR1, ICF1, TOV1, T3on, T3due, OCF3A, ACO >>

\* DDRF = ranges[r_index].pin_mask
charge_DDRF ==
    /\ Step("charge_DDRF", "start_capture_PRR0")
    /\ DDRF' = Range(r_index).pin_mask
    /\ fired' = {}
    /\ tally' = IF tally.on
                THEN [tally EXCEPT !.lead = @ + 1, !.first = "none",
                                   !.cycles = IF @ < MaxCycles THEN @ + 1 ELSE @]
                ELSE tally
    /\ UNCHANGED unpaced
    /\ UNCHANGED << SREG_I, engine, flags >>
    /\ UNCHANGED << PORTF, PRTIM1, CS1, TCNT1, ICR1, ICF1, TOV1, T3on, T3due, OCF3A, ACO >>

\* A faulty start_capture: the clock select is always the divider by 1.
start_capture_TCCR1B_FixedCS ==
    /\ Step("start_capture_TCCR1B", "charge_PORTF")
    /\ CS1' = 1
    /\ UNCHANGED << SREG_I, engine, flags, history >>
    /\ UNCHANGED << DDRF, PORTF, PRTIM1, TCNT1, ICR1, ICF1, TOV1, T3on, T3due, OCF3A, ACO >>

\* start_capture(): PRR0 &= ~(1 << PRTIM1)
start_capture_PRR0 ==
    /\ Step("start_capture_PRR0", "start_capture_TCNT1")
    /\ PRTIM1' = FALSE
    /\ UNCHANGED << SREG_I, engine, flags, history >>
    /\ UNCHANGED << DDRF, PORTF, CS1, TCNT1, ICR1, ICF1, TOV1, T3on, T3due, OCF3A, ACO >>

\* start_capture(): TCNT1 = 0
start_capture_TCNT1 ==
    /\ Step("start_capture_TCNT1", "start_capture_TCCR1B")
    /\ TCNT1' = 0
    /\ UNCHANGED << SREG_I, engine, flags, history >>
    /\ UNCHANGED << DDRF, PORTF, PRTIM1, CS1, ICR1, ICF1, TOV1, T3on, T3due, OCF3A, ACO >>

\* start_capture(): TCCR1B = ... | (ranges[r_index].CS << CS10)
start_capture_TCCR1B ==
    /\ Step("start_capture_TCCR1B", "charge_PORTF")
    /\ CS1' = Range(r_index).CS
    /\ UNCHANGED << SREG_I, engine, flags, history >>
    /\ UNCHANGED << DDRF, PORTF, PRTIM1, TCNT1, ICR1, ICF1, TOV1, T3on, T3due, OCF3A, ACO >>

\* PORTF = B11111000
charge_PORTF ==
    /\ Step("charge_PORTF", "wait_measured")
    /\ PORTF' = 248
    /\ UNCHANGED << SREG_I, engine, flags, history >>
    /\ UNCHANGED << DDRF, PRTIM1, CS1, TCNT1, ICR1, ICF1, TOV1, T3on, T3due, OCF3A, ACO >>

(***************************************************************************)
(* loop(): waiting for the result and taking it                            *)
(***************************************************************************)
\* while (!measured)
wait_measured ==
    /\ Step("wait_measured", IF measured THEN "clear_measured" ELSE "sleep_measured")
    /\ UNCHANGED << SREG_I, engine, flags, history, hw >>

\* __asm__("sleep")
sleep_measured ==
    /\ pc = "sleep_measured"
    /\ Run
    /\ sleeping' = TRUE
    /\ iret' = FALSE
    /\ UNCHANGED env
    /\ pc' = "wait_measured"
    /\ UNCHANGED << SREG_I, engine, flags, history, hw >>

\* measured = false
clear_measured ==
    /\ Step("clear_measured", "read_captured_lo")
    /\ measured' = FALSE
    /\ UNCHANGED << SREG_I, engine, captured, refresh_ready, history, hw >>

\* uint16_t timer = captured: two byte loads on the 8-bit CPU, low byte ...
read_captured_lo ==
    /\ Step("read_captured_lo", "read_captured_hi")
    /\ timer' = captured % 256
    /\ UNCHANGED << SREG_I, r_index, zeroed, zerocap, out, verbose, flags, history, hw >>

\* ... then high byte
read_captured_hi ==
    /\ Step("read_captured_hi", "discharge_DDRF")
    /\ timer' = (captured \div 256) * 256 + timer
    /\ UNCHANGED << SREG_I, r_index, zeroed, zerocap, out, verbose, flags, history, hw >>

(***************************************************************************)
(* loop(): discharge()                                                     *)
(***************************************************************************)
\* faulty variant: the direction register is left as charge() set it
discharge_DDRF_ActiveOnly ==
    /\ Step("discharge_DDRF", "discharge_PORTF")
    /\ unpaced' = TRUE
    /\ UNCHANGED << SREG_I, engine, flags, fired, tally, hw >>

\* DDRF = B00000111
discharge_DDRF ==
    /\ Step("discharge_DDRF", "discharge_PORTF")
    /\ DDRF' = 7
    /\ unpaced' = TRUE
    /\ UNCHANGED << SREG_I, engine, flags, fired, tally >>
    /\ UNCHANGED << PORTF, PRTIM1, CS1, TCNT1, ICR1, ICF1, TOV1, T3on, T3due, OCF3A, ACO >>

\* PORTF = 0xFF: the capacitor discharges and the comparator output falls
discharge_PORTF ==
    /\ Step("discharge_PORTF", "stop_capture_TCCR1B")
    /\ PORTF' = 255
    /\ ACO' = FALSE
    /\ UNCHANGED << SREG_I, engine, flags, history >>
    /\ UNCHANGED << DDRF, PRTIM1, CS1, TCNT1, ICR1, ICF1, TOV1, T3on, T3due, OCF3A >>

\* faulty variant: the clock select bits are left as they are
stop_capture_TCCR1B_KeepsClock ==
    /\ Step("stop_capture_TCCR1B", "stop_capture_PRR0")
    /\ UNCHANGED << SREG_I, engine, flags, history, hw >>

\* stop_capture(): TCCR1B = 0
stop_capture_TCCR1B ==
    /\ Step("stop_capture_TCCR1B", "stop_capture_PRR0")
    /\ CS1' = 0
    /\ UNCHANGED << SREG_I, engine, flags, history >>
    /\ UNCHANGED << DDRF, PORTF, PRTIM1, TCNT1, ICR1, ICF1, TOV1, T3on, T3due, OCF3A, ACO >>

\* stop_capture(): PRR0 |= 1 << PRTIM1
stop_capture_PRR0 ==
    /\ Step("stop_capture_PRR0", "print_cap")
    /\ PRTIM1' = TRUE
    /\ UNCHANGED << SREG_I, engine, flags, history >>
    /\ UNCHANGED << DDRF, PORTF, CS1, TCNT1, ICR1, ICF1, TOV1, T3on, T3due, OCF3A, ACO >>

(***************************************************************************)
(* loop(): evaluating the result, waiting for the pacing tick              *)
(***************************************************************************)
\* faulty variant: print_cap also applies the range policy
loop_print_cap_Reranges ==
    /\ pc = "print_cap"
    /\ Run
    /\ iret' = FALSE
    /\ UNCHANGED << sleeping, env >>
    /\ IF print_cap_zeroes(timer, r_index, zeroed)
       THEN /\ pc' = "print_cap_Zeroing"
            /\ zerocap' = RawC(timer, r_index)
            /\ UNCHANGED out
       ELSE /\ pc' = "rerange"
            /\ out' = print_cap(timer, r_index, zeroed, zerocap).out
            /\ UNCHANGED zerocap
    /\ r_index' = rerange(timer, r_index)
    /\ UNCHANGED << SREG_I, zeroed, timer, verbose, flags, history, hw >>

\* print_cap(timer), entered.  When the calibration branch is not taken the
\* call writes nothing but its result line; when it is taken, its first
\* write is zerocap = C.
loop_print_cap ==
    /\ pc = "print_cap"
    /\ Run
    /\ iret' = FALSE
    /\ UNCHANGED << sleeping, env >>
    /\ IF print_cap_zeroes(timer, r_index, zeroed)
       THEN /\ pc' = "print_cap_Zeroing"
            /\ zerocap' = RawC(timer, r_index)
            /\ UNCHANGED out
       ELSE /\ pc' = "rerange"
            /\ out' = print_cap(timer, r_index, zeroed, zerocap).out
            /\ UNCHANGED zerocap
    /\ UNCHANGED << SREG_I, r_index, zeroed, timer, verbose, flags, history, hw >>

\* Serial.print("Zeroing to "); print_si(zerocap); Serial.println('F')
print_cap_Zeroing ==
    /\ Step("print_cap_Zeroing", "print_cap_zeroed")
    /\ verbose' = [text |-> "Zeroing to ", C |-> zerocap]
    /\ UNCHANGED << SREG_I, r_index, zeroed, zerocap, timer, out, flags, history, hw >>

\* zeroed = true
print_cap_zeroed ==
    /\ Step("print_cap_zeroed", "print_cap_C")
    /\ zeroed' = TRUE
    /\ UNCHANGED << SREG_I, r_index, zerocap, timer, out, verbose, flags, history, hw >>

\* faulty variant: the calibrating reading is printed without the offset
\* subtracted
print_cap_C_Raw ==
    /\ Step("print_cap_C", "rerange")
    /\ out' = [sign |-> IF timer = FullScale THEN ">" ELSE "=",
               C |-> RawC(timer, r_index),
               idx |-> r_index]
    /\ UNCHANGED << SREG_I, r_index, zeroed, zerocap, timer, verbose, flags, history, hw >>

\* if (zeroed) { C -= zerocap; if (C < 0) C = 0; } and the result line
print_cap_C ==
    /\ Step("print_cap_C", "rerange")
    /\ out' = print_cap(timer, r_index, zeroed, zerocap).out
    /\ UNCHANGED << SREG_I, r_index, zeroed, zerocap, timer, verbose, flags, history, hw >>

\* rerange(timer)
loop_rerange ==
    /\ Step("rerange", "wait_refresh")
    /\ r_index' = rerange(timer, r_index)
    /\ UNCHANGED << SREG_I, zeroed, zerocap, timer, out, verbose, flags, history, hw >>

\* rerange(timer) in the build with QUICK_RANGE 1
loop_rerange_QUICK_RANGE ==
    /\ Step("rerange", "wait_refresh")
    /\ r_index' = rerange_QUICK_RANGE(timer, r_index)
    /\ UNCHANGED << SREG_I, zeroed, zerocap, timer, out, verbose, flags, history, hw >>

\* faulty variant: the loop does not wait for the pacing flag
wait_refresh_NoWait ==
    /\ Step("wait_refresh", "clear_refresh")
    /\ UNCHANGED << SREG_I, engine, flags, history, hw >>

\* while (!refresh_ready)
wait_refresh ==
    /\ Step("wait_refresh", IF refresh_ready THEN "clear_refresh" ELSE "sleep_refresh")
    /\ UNCHANGED << SREG_I, engine, flags, history, hw >>

\* __asm__("sleep")
sleep_refresh ==
    /\ pc = "sleep_refresh"
    /\ Run
    /\ sleeping' = TRUE
    /\ iret' = FALSE
    /\ UNCHANGED env
    /\ pc' = "wait_refresh"
    /\ UNCHANGED << SREG_I, engine, flags, history, hw >>

\* refresh_ready = false; the iteration ends and `timer` goes out of scope
clear_refresh ==
    /\ Step("clear_refresh", "charge_DDRF")
    /\ refresh_ready' = FALSE
    /\ timer' = 0
    /\ out' = NoLine
    /\ verbose' = NoNote
    /\ UNCHANGED << SREG_I, r_index, zeroed, zerocap, captured, measured, history, hw >>

(***************************************************************************)
(* Interrupt handlers.  A handler is entered when its flag is set and      *)
(* interrupts are enabled, lowest vector first (TIMER1_CAPT, TIMER1_OVF,   *)
(* TIMER3_COMPA); entering clears the flag and wakes the CPU.              *)
(***************************************************************************)
Enter ==
    /\ SREG_I
    /\ ~iret
    /\ sleeping' = FALSE
    /\ iret' = TRUE
    /\ UNCHANGED << pc, SREG_I, env >>

\* ISR(TIMER1_CAPT_vect): captured = ICR1; measured = true
ISR_TIMER1_CAPT ==
    /\ ICF1
    /\ Enter
    /\ ICF1' = FALSE
    /\ captured' = ICR1
    /\ measured' = TRUE
    /\ fired' = fired \cup {"CAPT"}
    /\ UNCHANGED << unpaced, tally >>
    /\ UNCHANGED << engine, refresh_ready >>
    /\ UNCHANGED << DDRF, PORTF, PRTIM1, CS1, TCNT1, ICR1, TOV1, T3on, T3due, OCF3A, ACO >>

\* faulty variant: the overflow handler applies the range policy itself
ISR_TIMER1_OVF_Reranges ==
    /\ TOV1 /\ ~ICF1
    /\ Enter
    /\ TOV1' = FALSE
    /\ captured' = FullScale
    /\ measured' = TRUE
    /\ r_index' = rerange(FullScale, r_index)
    /\ fired' = fired \cup {"OVF"}
    /\ UNCHANGED << zeroed, zerocap, timer, out, verbose, refresh_ready, unpaced, tally >>
    /\ UNCHANGED << DDRF, PORTF, PRTIM1, CS1, TCNT1, ICR1, ICF1, T3on, T3due, OCF3A, ACO >>

\* ISR(TIMER1_OVF_vect): captured = 0xFFFF; measured = true
ISR_TIMER1_OVF ==
    /\ TOV1 /\ ~ICF1
    /\ Enter
    /\ TOV1' = FALSE
    /\ captured' = FullScale
    /\ measured' = TRUE
    /\ fired' = fired \cup {"OVF"}
    /\ UNCHANGED << unpaced, tally >>
    /\ UNCHANGED << engine, refresh_ready >>
    /\ UNCHANGED << DDRF, PORTF, PRTIM1, CS1, TCNT1, ICR1, ICF1, T3on, T3due, OCF3A, ACO >>

\* faulty variant: the pacing handler does not set refresh_ready
ISR_TIMER3_COMPA_NoFlag ==
    /\ OCF3A /\ ~ICF1 /\ ~TOV1
    /\ Enter
    /\ OCF3A' = FALSE
    /\ unpaced' = FALSE
    /\ UNCHANGED << engine, flags, fired, tally >>
    /\ UNCHANGED << DDRF, PORTF, PRTIM1, CS1, TCNT1, ICR1, ICF1, TOV1, T3on, T3due, ACO >>

\* ISR(TIMER3_COMPA_vect): refresh_ready = true
ISR_TIMER3_COMPA ==
    /\ OCF3A /\ ~ICF1 /\ ~TOV1
    /\ Enter
    /\ OCF3A' = FALSE
    /\ refresh_ready' = TRUE
    /\ unpaced' = FALSE
    /\ UNCHANGED << engine, captured, measured, fired, tally >>
    /\ UNCHANGED << DDRF, PORTF, PRTIM1, CS1, TCNT1, ICR1, ICF1, TOV1, T3on, T3due, ACO >>

(***************************************************************************)
(* Hardware events                                                         *)
(***************************************************************************)
cpu == << pc, sleeping, iret, SREG_I, env >>

\* The crossing of a fixed capacitance is due: the charge is running, the
\* comparator has not tripped and the counter reads the count of the
\* capacitance, so the next event is the capture and not a timer clock.
\* Before and after the crossing the counter runs like any other, until
\* stop_capture() stops it.
MustCross ==
    /\ source.kind = "fixed"
    /\ Charging
    /\ ~ACO
    /\ TCNT1 = CountOf(source.C, r_index)

\* The counter advances by one; the wrap from 0xFFFF to 0 sets TOV1.  Only
\* steps between distinguished values are taken.
Timer1Tick ==
    /\ Running1
    /\ ~MustCross
    /\ TCNT1 = FullScale \/ TCNT1 + 1 \in Stops(source, r_index)
    /\ TCNT1' = U16(TCNT1 + 1)
    /\ TOV1' = (TOV1 \/ TCNT1 = FullScale)
    /\ tally' = IF tally.on /\ tally.first = "none" /\ TCNT1 = FullScale
                THEN [tally EXCEPT !.first = "overflow"] ELSE tally
    /\ UNCHANGED << cpu, engine, flags, fired, unpaced >>
    /\ UNCHANGED << DDRF, PORTF, PRTIM1, CS1, ICR1, ICF1, T3on, T3due, OCF3A, ACO >>

\* While the CPU sleeps with nothing pending, any number of timer clocks
\* pass: the counter moves on to a later distinguished value.
Timer1Elapse ==
    /\ Running1
    /\ ~MustCross
    /\ sleeping /\ ~Pending
    /\ \E v \in Stops(source, r_index) :
          /\ v > TCNT1
          /\ source.kind = "fixed" =>
                \A u \in Stops(source, r_index) : u > TCNT1 => v <= u
          /\ TCNT1' = v
    /\ UNCHANGED << cpu, engine, flags, history >>
    /\ UNCHANGED << DDRF, PORTF, PRTIM1, CS1, ICR1, ICF1, TOV1, T3on, T3due, OCF3A, ACO >>

\* The capacitor voltage crosses the comparator threshold while charging:
\* the input-capture unit copies TCNT1 to ICR1 and sets ICF1.
ThresholdCrossed ==
    /\ Charging /\ ~ACO
    /\ ~PRTIM1
    /\ \/ source.kind = "any"
       \/ source.kind = "fixed" /\ TCNT1 = CountOf(source.C, r_index)
    /\ ACO' = TRUE
    /\ ICR1' = TCNT1
    /\ ICF1' = TRUE
    /\ tally' = IF tally.on /\ tally.first = "none"
                THEN [tally EXCEPT !.first = "crossing"] ELSE tally
    /\ UNCHANGED << cpu, engine, flags, fired, unpaced >>
    /\ UNCHANGED << DDRF, PORTF, PRTIM1, CS1, TCNT1, TOV1, T3on, T3due, OCF3A >>

\* Timer 3 counts towards OCR3A.  Its period (500 ms) is far longer than any
\* stretch of main-program code, so it comes due only while the CPU sleeps
\* with nothing pending.
Timer3Run ==
    /\ T3on /\ ~T3due
    /\ sleeping /\ ~Pending
    /\ T3due' = TRUE
    /\ UNCHANGED << cpu, engine, flags, history >>
    /\ UNCHANGED << DDRF, PORTF, PRTIM1, CS1, TCNT1, ICR1, ICF1, TOV1, T3on, OCF3A, ACO >>

\* Timer 3 reaches OCR3A and restarts from 0: the pacing tick.  A tick that
\* finds OCF3A still set coalesces with the earlier one.
Timer3Match ==
    /\ T3on /\ T3due
    /\ OCF3A' = TRUE
    /\ T3due' = FALSE
    /\ tally' = IF tally.on /\ tally.lead > -MaxLag
                THEN [tally EXCEPT !.lead = @ - 1] ELSE tally
    /\ UNCHANGED << cpu, engine, flags, fired, unpaced >>
    /\ UNCHANGED << DDRF, PORTF, PRTIM1, CS1, TCNT1, ICR1, ICF1, TOV1, T3on, ACO >>

(***************************************************************************)
(* The next-state relation                                                 *)
(***************************************************************************)
Setup ==
    \/ setup_power \/ setup_ports_DDRF \/ setup_ports_PORTF
    \/ setup_capture \/ setup_refresh \/ setup_sei

Loop ==
    \/ charge_DDRF \/ start_capture_PRR0 \/ start_capture_TCNT1
    \/ start_capture_TCCR1B \/ charge_PORTF
    \/ wait_measured \/ sleep_measured \/ clear_measured
    \/ read_captured_lo \/ read_captured_hi
    \/ discharge_DDRF \/ discharge_PORTF
    \/ stop_capture_TCCR1B \/ stop_capture_PRR0
    \/ loop_print_cap \/ print_cap_Zeroing \/ print_cap_zeroed \/ print_cap_C
    \/ loop_rerange
    \/ wait_refresh \/ sleep_refresh \/ clear_refresh

Interrupts == ISR_TIMER1_CAPT \/ ISR_TIMER1_OVF \/ ISR_TIMER3_COMPA

Hardware ==
    \/ Timer1Tick \/ Timer1Elapse \/ ThresholdCrossed
    \/ Timer3Run \/ Timer3Match

\* Fairness: an awake CPU executes, requested interrupts are taken, the
\* clocked counter keeps counting and the pacing timer keeps matching.
\* A fixed capacitance crosses the threshold when its count is reached;
\* nothing forces a crossing of the "any" source.
Fairness ==
    /\ WF_vars(Setup \/ Loop)
    /\ WF_vars(ISR_TIMER1_CAPT)
    /\ WF_vars(ISR_TIMER1_OVF)
    /\ WF_vars(ISR_TIMER3_COMPA)
    /\ SF_vars(Timer1Tick \/ Timer1Elapse)
    /\ SF_vars(Timer3Run)
    /\ WF_vars(Timer3Match)
    /\ WF_vars(source.kind = "fixed" /\ ThresholdCrossed)

Next == Setup \/ Loop \/ Interrupts \/ Hardware

Spec == Init /\ [][Next]_vars

FairSpec == Init /\ [][Next]_vars /\ Fairness

(***************************************************************************)
(* The same program from boot, with the charge() calls and the pacing      *)
(* ticks counted against each other, and with the first timer-1 event of   *)
(* every cycle (threshold crossing or counter overflow) remembered.        *)
(***************************************************************************)
InitCount ==
    /\ table = ranges
    /\ pc = "setup_power"
    /\ sleeping = FALSE
    /\ iret = FALSE
    /\ SREG_I = FALSE
    /\ r_index = BootIndex
    /\ captured = 0
    /\ measured = FALSE
    /\ refresh_ready = FALSE
    /\ zeroed = FALSE
    /\ zerocap = CZero
    /\ timer = 0
    /\ DDRF = 0
    /\ PORTF = 0
    /\ PRTIM1 = FALSE
    /\ CS1 = 0
    /\ TCNT1 = 0
    /\ ICR1 = 0
    /\ ICF1 = FALSE
    /\ TOV1 = FALSE
    /\ T3on = FALSE
    /\ T3due = FALSE
    /\ OCF3A = FALSE
    /\ ACO = FALSE
    /\ out = NoLine
    /\ verbose = NoNote
    /\ fired = {}
    /\ unpaced = FALSE
    /\ tally = [on |-> TRUE, lead |-> 0, first |-> "none", cycles |-> 0]
    /\ source \in Sources

CountSpec == InitCount /\ [][Next]_vars

(***************************************************************************)
(* The running engine with a capacitor just connected: loop() is about to  *)
(* call charge(), the index is wherever earlier measurements left it, and  *)
(* the source is a fixed capacitance or one that always overflows.         *)
(***************************************************************************)
InitLoop ==
    /\ table = ranges
    /\ pc = "charge_DDRF"
    /\ sleeping = FALSE
    /\ iret = FALSE
    /\ SREG_I = TRUE
    /\ r_index \in 0 .. n_ranges - 1
    /\ captured = 0
    /\ measured = FALSE
    /\ refresh_ready = FALSE
    /\ zeroed = FALSE
    /\ zerocap = CZero
    /\ timer = 0
    /\ DDRF = 7
    /\ PORTF = 255
    /\ PRTIM1 = TRUE
    /\ CS1 = 0
    /\ TCNT1 = 0
    /\ ICR1 = 0
    /\ ICF1 = FALSE
    /\ TOV1 = FALSE
    /\ T3on = TRUE
    /\ T3due = FALSE
    /\ OCF3A = FALSE
    /\ ACO = FALSE
    /\ out = NoLine
    /\ verbose = NoNote
    /\ fired = {}
    /\ unpaced = FALSE
    /\ tally = NoTally
    /\ source \in Sources \ {AnySource}

LoopNext == Loop \/ Interrupts \/ Hardware

(***************************************************************************)
(* The evaluation of one result, print_cap(timer) followed by              *)
(* rerange(timer), for every 16-bit value of `timer` at every index, with  *)
(* the compiled-in table and with two tables of another hardware: the      *)
(* two-row table of the design's clamping scenario, and the same table     *)
(* with a threshold in its last row.                                       *)
(***************************************************************************)
ScenarioTable ==
    << [R |-> 270,     prescale |-> 1,    CS |-> 1, pin_mask |-> 1, min |-> 14000, grow |-> 5],
       [R |-> 1000000, prescale |-> 1024, CS |-> 5, pin_mask |-> 4, min |-> 0,     grow |-> 255] >>

ScenarioTableMin ==
    << [R |-> 270,     prescale |-> 1,    CS |-> 1, pin_mask |-> 1, min |-> 14000, grow |-> 5],
       [R |-> 1000000, prescale |-> 1024, CS |-> 5, pin_mask |-> 4, min |-> 8192,  grow |-> 8] >>

Tables == {ranges, ScenarioTable, ScenarioTableMin}

InitEval ==
    /\ table \in Tables
    /\ pc = "print_cap"
    /\ sleeping = FALSE
    /\ iret = FALSE
    /\ SREG_I = TRUE
    /\ r_index \in 0 .. n_ranges - 1
    /\ captured = 0
    /\ measured = FALSE
    /\ refresh_ready = FALSE
    /\ zeroed = FALSE
    /\ zerocap = CZero
    /\ timer \in 0 .. FullScale
    /\ DDRF = 7
    /\ PORTF = 255
    /\ PRTIM1 = TRUE
    /\ CS1 = 0
    /\ TCNT1 = 0
    /\ ICR1 = 0
    /\ ICF1 = FALSE
    /\ TOV1 = FALSE
    /\ T3on = TRUE
    /\ T3due = FALSE
    /\ OCF3A = FALSE
    /\ ACO = FALSE
    /\ out = NoLine
    /\ verbose = NoNote
    /\ fired = {}
    /\ unpaced = TRUE
    /\ tally = NoTally
    /\ source = AnySource

EvalNext ==
    \/ loop_print_cap \/ print_cap_Zeroing \/ print_cap_zeroed \/ print_cap_C
    \/ loop_rerange

EvalSpec == InitEval /\ [][EvalNext]_vars

(***************************************************************************)
(* The same evaluation in the build with QUICK_RANGE 1, for every 16-bit   *)
(* value of `timer` at every index of the compiled-in table.               *)
(***************************************************************************)
InitQuick == InitEval /\ table = ranges

QuickNext ==
    \/ loop_print_cap \/ print_cap_Zeroing \/ print_cap_zeroed \/ print_cap_C
    \/ loop_rerange_QUICK_RANGE

QuickSpec == InitQuick /\ [][QuickNext]_vars

LoopSpec == InitLoop /\ [][LoopNext]_vars /\ Fairness


(***************************************************************************)
(* Properties                                                              *)
(***************************************************************************)
\* positions of loop() after rerange() has returned
AfterRerange == {"wait_refresh", "sleep_refresh", "clear_refresh"}

\* C1: with the compiled-in table and the single-step policy the active
\* range index stays within 0 .. n_ranges-1 whatever counts and overflows
\* the cycles produce, starting from the boot index.
C1_IndexInBounds == r_index \in 0 .. n_ranges - 1

\* a captured count was evaluated at the last index and the index stayed
C1_Witness ==
    /\ pc = "wait_refresh"
    /\ out.sign = "=" /\ out.idx = n_ranges - 1
    /\ timer = 0
    /\ r_index = n_ranges - 1

\* C2: in a charge cycle at most one of the two timer-1 handlers runs
\* between one entry to charge() and the next.
C2_OneHandlerPerCycle == ~({"CAPT", "OVF"} \subseteq fired)

\* C3: charge() is always entered with `measured` false, and the count the
\* loop reads was latched by a handler that ran after that charge() began.
C3_ResultOfThisCycle ==
    /\ pc = "charge_DDRF" => ~measured
    /\ pc = "read_captured_lo" => fired # {}

\* C4: an overflowed result (timer = 0xFFFF) moves the index down by exactly
\* one when it is above 0 and leaves it at 0 otherwise.
C4_OverflowStepsDown ==
    (pc \in AfterRerange /\ timer = FullScale) =>
        r_index = IF out.idx > 0 THEN out.idx - 1 ELSE 0

\* an overflow was evaluated at index 0 and the index stayed 0
C4_Witness ==
    /\ pc = "wait_refresh"
    /\ timer = FullScale /\ out.sign = ">" /\ out.idx = 0
    /\ r_index = 0

\* C5: a captured count below the active range's threshold moves the index
\* up by exactly one; a count at or above the threshold never moves it up.
C5_LowCountStepsUp ==
    (pc \in AfterRerange /\ timer # FullScale) =>
        IF timer < Range(out.idx).min
        THEN r_index = out.idx + 1
        ELSE r_index <= out.idx

\* the largest count below a threshold was evaluated and the index went up
C5_Witness ==
    /\ pc = "wait_refresh"
    /\ out.idx = 6 /\ timer = Range(6).min - 1
    /\ r_index = 7

\* C6: a consumed count with min <= count < full scale leaves the index
\* unchanged, in every cycle that returns such a count.
C6_StableAtOptimum ==
    (pc \in AfterRerange /\ Range(out.idx).min <= timer /\ timer < FullScale) =>
        r_index = out.idx

\* a count exactly at the threshold was evaluated and the index stayed
C6_Witness ==
    /\ pc = "wait_refresh"
    /\ out.idx = 6 /\ timer = Range(6).min
    /\ r_index = 6

\* C7: one cycle changes the index by at most one, in either direction.
C7_SingleStep ==
    pc \in AfterRerange =>
        (r_index - out.idx) \in {-1, 0, 1}

\* an overflow was evaluated at the last index and the index is one lower
C7_Witness ==
    /\ pc = "wait_refresh"
    /\ timer = FullScale /\ out.idx = n_ranges - 1
    /\ r_index = n_ranges - 2


\* C8: with a source that overflows in every cycle, every cycle is reported
\* as an overflow and moves the index down by one until it is 0; the index
\* then stays 0 for ever, and the engine keeps starting new cycles.
C8_OverflowSaturates ==
    source.kind = "overflow" =>
        /\ [](pc \in AfterRerange =>
                /\ out.sign = ">"
                /\ r_index = IF out.idx > 0 THEN out.idx - 1 ELSE 0)
        /\ <>[](r_index = 0)
        /\ []<>(pc = "charge_DDRF")

\* the overflowing source has driven the index from the last range to 0,
\* and a further overflow has been evaluated there
C8_Witness ==
    /\ source.kind = "overflow"
    /\ pc = "wait_refresh"
    /\ out.sign = ">" /\ out.idx = 0
    /\ r_index = 0

\* a capacitance is representable in a range when its count there fits the
\* 16-bit counter
Representable(C) == \E i \in 0 .. n_ranges - 1 : CountOf(C, i) <= FullScale

\* C9: with a synthetic source for a fixed capacitance that is representable
\* in at least one range, the index reaches, from any starting index, an
\* index at which it then stays for ever.
C9_Converges ==
    (source.kind = "fixed" /\ Representable(source.C)) =>
        \E i \in 0 .. Len(ranges) - 1 : <>[](r_index = i)

\* C10: the engine never halts: charge() and discharge() are each entered
\* again and again for ever, so every charge() is followed by a discharge()
\* and every discharge() by the next charge(), whatever the results.
C10_NeverHalts ==
    /\ []<>(pc = "charge_DDRF")
    /\ []<>(pc = "discharge_DDRF")

\* a fifth cycle is starting after cycles that ended in overflows
C10_Witness ==
    /\ pc = "charge_DDRF"
    /\ r_index = 0
    /\ source.kind = "any"


\* positions of loop() at which the line of this iteration has been emitted
AfterPrint == {"rerange"} \cup AfterRerange

\* C11: calibration is set at most once per boot: once `zeroed` is true it
\* stays true and `zerocap` keeps its value in every later step.
C11_CalibratedOnce == [][zeroed => (zeroed' /\ zerocap' = zerocap)]_vars

\* calibrated to a non-zero offset, and a later reading at the last index,
\* again below the ceiling but different, has been evaluated
C11_Witness ==
    /\ pc = "rerange"
    /\ zeroed /\ zerocap = RawC(2422, n_ranges - 1)
    /\ out.idx = n_ranges - 1 /\ timer = 0

\* C12: calibration is established only inside print_cap evaluating, at the
\* last index, a value that is not the overflow value and whose raw estimate
\* is below 100 pF (a count of at most 2422); that raw estimate is the
\* offset; and the first such reading since boot does establish it: it
\* takes the calibration branch, which goes on to set `zeroed`.
C12_CalibrationTrigger ==
    [][ /\ (~zeroed /\ zeroed') =>
              /\ pc = "print_cap_zeroed"
              /\ r_index = n_ranges - 1
              /\ timer <= 2422 /\ timer # FullScale
              /\ zerocap = RawC(timer, r_index) /\ zerocap' = zerocap
        /\ (~zeroed /\ pc = "print_cap" /\ pc' # pc
              /\ r_index = n_ranges - 1 /\ timer <= 2422) =>
              /\ pc' = "print_cap_Zeroing"
              /\ zerocap' = RawC(timer, r_index)
        /\ (pc = "print_cap_Zeroing" /\ pc' # pc) => pc' = "print_cap_zeroed"
        /\ (pc = "print_cap_zeroed" /\ pc' # pc) => zeroed'
      ]_vars

\* the largest count below the ceiling has just established the calibration
C12_Witness ==
    /\ pc = "rerange"
    /\ zeroed /\ zerocap = RawC(2422, n_ranges - 1)
    /\ out.idx = n_ranges - 1 /\ timer = 2422
    /\ out.C = CZero

\* C13: before calibration the reported capacitance is the raw estimate;
\* once calibrated it is max(0, raw - offset): zero when the raw estimate is
\* below the offset, otherwise the value that added to the offset gives the
\* raw estimate; and it is never negative.
C13_ReportedValue ==
    pc \in AfterPrint =>
        LET raw == RawC(timer, out.idx)
            sum == out.C.lo + zerocap.lo
        IN  /\ out.C.hi >= 0 /\ out.C.lo >= 0 /\ out.C.lo < Limb
            /\ ~zeroed => out.C = raw
            /\ zeroed =>
                  IF CLess(raw, zerocap) THEN out.C = CZero
                  ELSE /\ raw.lo = sum % Limb
                       /\ raw.hi = out.C.hi + zerocap.hi + sum \div Limb

\* calibrated to a non-zero offset, a smaller raw estimate was reported as 0
C13_Witness ==
    /\ pc = "wait_refresh"
    /\ zeroed /\ zerocap # CZero
    /\ CLess(RawC(timer, out.idx), zerocap)
    /\ out.C = CZero


\* C14: the line emitted for an overflowed cycle does not carry the
\* capacitance computed from the full-scale count.
C14_OverflowNotEstimated ==
    (pc \in AfterPrint /\ out.sign = ">") =>
        out.C # (IF zeroed THEN CSubFloor(RawC(FullScale, out.idx), zerocap)
                 ELSE RawC(FullScale, out.idx))

\* C15: when only the capture handler has run in the cycle and the consumed
\* value is the count it latched, the line is a measurement ("=") and the
\* range policy does not move the index down.
C15_CaptureIsNeverOverflow ==
    (pc \in AfterPrint /\ fired = {"CAPT"} /\ timer = ICR1) =>
        /\ out.sign = "="
        /\ pc \in AfterRerange => r_index >= out.idx

\* C16: charge() is not entered while a discharge() has begun and no pacing
\* tick has fired since.
C16_PacedAfterDischarge == pc = "charge_DDRF" => ~unpaced

\* positions of loop() between the end of charge() and the first write of
\* discharge()
WhileCharging ==
    {"wait_measured", "sleep_measured", "clear_measured",
     "read_captured_lo", "read_captured_hi", "discharge_DDRF"}

\* C17: after every single register write at most one resistor pin is an
\* output at the charging level, and while the engine is charging exactly
\* the pin of the active range is.
C17_OnePathAtATime ==
    /\ Cardinality(Driven) <= 1
    /\ pc \in WhileCharging =>
          Driven = {n \in 0 .. 2 : 2 ^ n = Range(r_index).pin_mask}

\* positions inside print_cap, in the calibration branch and after it
InPrintCap == {"print_cap_Zeroing", "print_cap_zeroed", "print_cap_C"}

\* positions of loop() from print_cap to the end of the wait for the tick
Evaluating == {"print_cap"} \cup InPrintCap \cup AfterPrint

\* C18: while the result is evaluated and while the engine waits for the
\* pacing tick, timer 1 is stopped and powered down, no pin is charging, and
\* no capture or overflow request is pending, so neither handler can run.
C18_StoppedWhileEvaluating ==
    pc \in Evaluating =>
        /\ CS1 = 0 /\ PRTIM1
        /\ ~Charging
        /\ ~ICF1 /\ ~TOV1

\* the engine sleeps, waiting for the tick, after a cycle that overflowed
C18_Witness ==
    /\ pc = "wait_refresh" /\ sleeping
    /\ fired = {"OVF"}
    /\ CS1 = 0 /\ PRTIM1

\* C19: a handler step (a step that enters a handler) leaves r_index, zeroed,
\* zerocap, the loop's local and the emitted line alone; a timer-1 handler
\* leaves refresh_ready alone and the pacing handler leaves captured and
\* measured alone.
C19_HandlersOnlyLatch ==
    [][(~iret /\ iret') =>
          /\ UNCHANGED << r_index, zeroed, zerocap, timer, out >>
          /\ (ICF1' # ICF1 \/ TOV1' # TOV1) => UNCHANGED refresh_ready
          /\ OCF3A' # OCF3A => UNCHANGED << captured, measured >>
      ]_vars

\* the overflow handler has just returned in the first cycle: it latched
\* 0xFFFF and signalled, and the index is still the boot index
C19_Witness ==
    /\ iret /\ fired = {"OVF"}
    /\ captured = FullScale /\ measured
    /\ r_index = BootIndex /\ ~zeroed /\ out = NoLine

\* C20: r_index changes only in the rerange step of loop(), which runs with
\* the pins in the discharge topology and timer 1 stopped.
C20_OnlyRerangeWrites ==
    [][r_index' # r_index =>
          /\ pc = "rerange" /\ pc' = "wait_refresh"
          /\ DDRF = 7 /\ PORTF = 255
          /\ CS1 = 0 /\ PRTIM1
      ]_vars

\* rerange has moved the index
C20_Witness ==
    /\ pc = "wait_refresh"
    /\ r_index # out.idx
    /\ out.sign = "="


\* C21: the pacing tick gates the report only: wherever the loop waits for
\* the pacing flag, the result of the cycle has not been emitted yet, so
\* that no charge() is held back by the tick once its predecessor's result
\* is out.
C21_TickGatesReportOnly ==
    pc \in {"wait_refresh", "sleep_refresh"} => out = NoLine

\* C22: in every iteration exactly one line is emitted, after the cycle has
\* completed: it is a measurement or an out-of-range indication, the latter
\* exactly when the overflow handler ran in the cycle, and it carries the
\* index the measurement was taken at, which rerange has not changed yet.
C22_OneResultPerCycle ==
    /\ pc \notin AfterPrint => out = NoLine
    /\ pc \in AfterPrint =>
          /\ out.sign \in {"=", ">"}
          /\ (out.sign = ">") = ("OVF" \in fired)
    /\ pc = "rerange" => out.idx = r_index

\* the circuit with no capacitor attached: every range but the last reads
\* below its threshold, the last range reads below the 100 pF ceiling
NoCapacitor(C) ==
    /\ \A i \in 0 .. n_ranges - 2 : CountOf(C, i) < Range(i).min
    /\ CLess(RawC(CountOf(C, n_ranges - 1), n_ranges - 1), Ceiling100pF)

\* C24: with no capacitor attached the engine, from whatever index it
\* starts at, eventually establishes the calibration.
C24_SelfZeroes ==
    (source.kind = "fixed" /\ NoCapacitor(source.C)) => <>zeroed

\* C28: the table is the compiled-in one in every state (no step writes
\* it), it is not empty, and its resistance is non-decreasing in the index.
C28_TableConstant ==
    /\ table = ranges
    /\ Len(table) >= 1
    /\ \A i \in 1 .. Len(table) - 1 : table[i].R <= table[i + 1].R

\* the index has moved to the first row and the table is what it was
C28_Witness ==
    /\ pc = "wait_refresh"
    /\ r_index = 0 /\ out.idx = 1
    /\ table = ranges

\* C29: when discharge() has returned, PF0-PF2 are all outputs at the high
\* (discharge) level and the timer-1 clock is stopped, at every index.
C29_DischargeTopology ==
    pc = "print_cap" =>
        /\ \A n \in 0 .. 2 : Bit(DDRF, n) = 1 /\ Bit(PORTF, n) = 1
        /\ CS1 = 0

\* discharge() has returned after a charge through the 1 MOhm pin
C29_Witness ==
    /\ pc = "print_cap"
    /\ r_index = n_ranges - 1
    /\ DDRF = 7 /\ PORTF = 255 /\ CS1 = 0


\* C30: the number of charge() calls is at most one more than the number of
\* pacing ticks that have occurred.
C30_TickBoundsCycles == tally.on => tally.lead <= 1

\* a later cycle has just called charge() and every tick so far was used
C30_Witness ==
    /\ pc = "start_capture_PRR0"
    /\ r_index # BootIndex
    /\ tally.on /\ tally.lead = 1


\* C23: with any table, after rerange the index is within the table, and a
\* captured count below the threshold of the last row, evaluated at the
\* last index, leaves the index where it is.
C23_ClampedAtLastIndex ==
    pc \in AfterRerange =>
        /\ r_index <= n_ranges - 1
        /\ (out.idx = n_ranges - 1 /\ timer # FullScale
               /\ timer < Range(out.idx).min) => r_index = out.idx

\* tau_fall = 1.514 and tau_rise = 0.2485, both in units of 1/2000
TauFall == 3028
TauRise == 497

\* taus to stabilization
taustable == 7

\* the drive resistors of the range analysis, for PF0, PF1, PF2
R_analysis == << 270, 15000, 1000000 >>

\* timermax = pmin(tmax*f/s, 2^16-1) with tmax*f = 4e-6 * 2^16 * 16e6 = 2^22
timermax(s) ==
    IF 4194304 \div s < FullScale THEN 4194304 \div s ELSE FullScale

\* the resistor the range analysis has on the pin of row i
AnalysisR(i) ==
    R_analysis[(CHOOSE n \in 0 .. 2 : Range(i).pin_mask = 2 ^ n) + 1]

RECURSIVE GCD(_, _)
GCD(a, b) == IF b = 0 THEN a ELSE GCD(b, a % b)

\* Cmin(i) <= Cmax(j) of the range analysis, with
\*   Cmin = s/f/taurise/R  and  Cmax = timermax*s/f/taustable/R,
\* i.e. s_i * R_j * taustable <= timermax_j * s_j * R_i * taurise,
\* evaluated after the common factor of the two sides is removed.  The
\* quotient timermax * taurise / taustable is at most 2327.
MinBelowMax(i, j) ==
    LET x == Range(i).prescale * AnalysisR(j)
        y == Range(j).prescale * AnalysisR(i)
        g == GCD(x, y)
        a == x \div g
        b == y \div g
        K == timermax(Range(j).prescale) * TauRise
    IN  \/ b >= a
        \/ /\ a \div b < 2400
           /\ (a * taustable * 2000 + K - 1) \div K <= b

\* C25: every row's window is not empty, C_min(r) < C_max(r), and the
\* windows of consecutive rows overlap, C_min(r) <= C_max(r+1): for the
\* windows as stated, C_min = prescale/(R*tau_rise) and
\* C_max = 65535*prescale/(R*tau_fall) with the table's values, and for the
\* windows as the range analysis computes them.
C25_WindowsOverlap ==
    /\ \A r \in 0 .. n_ranges - 1 :
          /\ Weight(r) > 0 /\ TauFall < FullScale * TauRise
          /\ taustable * 2000 < timermax(Range(r).prescale) * TauRise
          /\ MinBelowMax(r, r)
    /\ \A r \in 0 .. n_ranges - 2 :
          /\ LET g == GCD(Weight(r), Weight(r + 1))
                 a == Weight(r) \div g
                 b == Weight(r + 1) \div g
             IN  b >= a \/ a * TauFall <= b * FullScale * TauRise
          /\ MinBelowMax(r, r + 1)

\* the policy has moved from a row to the next one, whose window overlaps
C25_Witness ==
    /\ pc = "wait_refresh"
    /\ out.sign = "=" /\ out.idx = 4 /\ r_index = 5
    /\ MinBelowMax(4, 5)

\* C26: the raw estimate strictly increases with the count at a fixed row,
\* and at the same count and prescaler a row of higher resistance never
\* gives the larger estimate (and gives a smaller one for a non-zero count).
C26_EstimateMonotone ==
    pc = "rerange" =>
        /\ timer < FullScale =>
              CLess(RawC(timer, out.idx), RawC(timer + 1, out.idx))
        /\ \A j \in 0 .. n_ranges - 1 :
              (Range(j).prescale = Range(out.idx).prescale
                 /\ Range(j).R > Range(out.idx).R) =>
                  /\ ~CLess(RawC(timer, out.idx), RawC(timer, j))
                  /\ timer > 0 => CLess(RawC(timer, j), RawC(timer, out.idx))

\* the largest count whose successor still fits was evaluated at the 270 Ohm
\* row of prescaler 8, which has rows of higher resistance to compare with
C26_Witness ==
    /\ pc = "rerange"
    /\ table = ranges
    /\ out.idx = 3 /\ timer = FullScale - 1
    /\ out.C = RawC(timer, 3)

\* C27 as stated: the estimate for count 10000 at the row R = 270,
\* prescale 8 is 122 nF to three digits: between 121.5 nF and 122.5 nF,
\* which are 79473550 and 80127654 units.
C27_Estimate122nF ==
    (pc = "rerange" /\ table = ranges /\ out.idx = 3 /\ timer = 10000) =>
        /\ CLess([hi |-> 7947, lo |-> 3550], out.C)
        /\ CLess(out.C, [hi |-> 8012, lo |-> 7654])

\* C27 amended: the estimate for count 10000 at the row R = 270, prescale 8
\* is 12.2 uF to three digits: between 12.15 uF and 12.25 uF, which are
\* 7947355046 and 8012765376 units.
C27_Estimate12uF ==
    (pc = "rerange" /\ table = ranges /\ out.idx = 3 /\ timer = 10000) =>
        /\ CLess([hi |-> 794735, lo |-> 5046], out.C)
        /\ CLess(out.C, [hi |-> 801276, lo |-> 5376])

\* print_cap has evaluated count 10000 at the row R = 270, prescale 8
C27_Witness ==
    /\ pc = "rerange"
    /\ table = ranges
    /\ Range(out.idx).R = 270 /\ Range(out.idx).prescale = 8
    /\ timer = 10000
    /\ out.sign = "="


\* C31: when the threshold crossing is the first timer-1 event of a cycle
\* and the capture handler has run, `captured` holds the count latched at
\* the crossing until the loop has read it, and the value the loop consumes
\* is that count.
C31_CaptureSurvivesOverflow ==
    (tally.on /\ tally.first = "crossing" /\ "CAPT" \in fired) =>
        /\ pc \in {"wait_measured", "sleep_measured", "clear_measured",
                   "read_captured_lo", "read_captured_hi"} => captured = ICR1
        /\ pc = "discharge_DDRF" => timer = ICR1

\* C32: no lost wake-up: the CPU is never asleep in one of the two waits
\* while the flag that wait is for is already set, so that a handler which
\* has set the flag is enough for the loop to go on.
C32_NoLostWakeup ==
    sleeping =>
        /\ pc = "wait_measured" => ~measured
        /\ pc = "wait_refresh" => ~refresh_ready

\* positions of the main program inside setup()
InSetup ==
    {"setup_power", "setup_ports_DDRF", "setup_ports_PORTF",
     "setup_capture", "setup_refresh", "setup_sei"}

C34_CalibratingReadingIsZero ==
    (pc \in AfterPrint /\ verbose # NoNote) =>
        /\ zeroed
        /\ out.C = CZero
        /\ out.sign = "=" /\ out.idx = n_ranges - 1
        /\ zerocap = RawC(timer, out.idx) /\ verbose.C = zerocap

\* a count of 1 at the last row has established a non-zero offset and was
\* reported as zero
C34_Witness ==
    /\ pc = "wait_refresh"
    /\ table = ranges
    /\ zeroed /\ zerocap = RawC(1, n_ranges - 1) /\ zerocap # CZero
    /\ verbose = [text |-> "Zeroing to ", C |-> zerocap]
    /\ timer = 1 /\ out.idx = n_ranges - 1
    /\ out.C = CZero

\* C35: from boot the calibration is not established before the fifth
\* charge cycle: after k cycles have begun the index is at most the boot
\* index plus k, and `zeroed` is set only when at least
\* n_ranges - BootIndex = 5 cycles have begun.
C35_NotBeforeFifthCycle ==
    tally.on =>
        /\ tally.cycles < MaxCycles => r_index <= BootIndex + tally.cycles
        /\ zeroed => tally.cycles >= n_ranges - BootIndex

\* the fifth cycle since boot has just established the calibration
C35_Witness ==
    /\ tally.on /\ tally.cycles = n_ranges - BootIndex
    /\ tally.cycles < MaxCycles
    /\ pc = "rerange"
    /\ zeroed /\ out.idx = n_ranges - 1
    /\ out.C = CZero /\ zerocap = RawC(timer, out.idx)

\* C36: prescale[i]/R[i] > prescale[i+1]/R[i+1] for every pair of
\* consecutive rows (cross-multiplied), and for a fixed capacitance the
\* count at the next row is never smaller, and is larger whenever the count
\* is at least 1 and the count at the next row still fits the counter.
C36_WindowShrinksWithIndex ==
    /\ \A i \in 0 .. n_ranges - 2 :
          Range(i).prescale * Range(i + 1).R > Range(i + 1).prescale * Range(i).R
    /\ source.kind = "fixed" =>
          \A i \in 0 .. n_ranges - 2 :
              /\ CountOf(source.C, i) <= CountOf(source.C, i + 1)
              /\ (CountOf(source.C, i) >= 1 /\ CountOf(source.C, i + 1) <= FullScale)
                    => CountOf(source.C, i) < CountOf(source.C, i + 1)

\* a fixed capacitance was moved up from the boot index and its count at
\* the new row, just captured, is larger than its non-zero count at the row
\* that was left
C36_Witness ==
    /\ source.kind = "fixed"
    /\ pc = "print_cap" /\ fired = {"CAPT"}
    /\ r_index = BootIndex + 1
    /\ timer = CountOf(source.C, r_index)
    /\ CountOf(source.C, r_index - 1) >= 1
    /\ timer > CountOf(source.C, r_index - 1)

\* the timer-1 clock divider selected by the CS1 bits (0 = stopped)
Prescaler(cs) ==
    CASE cs = 1 -> 1
      [] cs = 2 -> 8
      [] cs = 3 -> 64
      [] cs = 4 -> 256
      [] cs = 5 -> 1024
      [] OTHER -> 0

\* the resistor wired to pin PFn in the circuit the table was written for
\* (A0, A1, A2: 270R, 10k, 1M)
Resistor(n) ==
    CASE n = 0 -> 270
      [] n = 1 -> 10000
      [] n = 2 -> 1000000
      [] OTHER -> 0

\* C37: every row's CS bits select its prescale value and its pin_mask is
\* a single bit of PF0-PF2 whose resistor is the row's R; hence, while a
\* charge is timed, the divider clocking timer 1 and the resistor of the
\* driven pin are those of the row the estimator will use.
C37_RowsSelfConsistent ==
    /\ \A i \in 0 .. n_ranges - 1 :
          /\ Prescaler(Range(i).CS) = Range(i).prescale
          /\ \E n \in 0 .. 2 :
                Range(i).pin_mask = 2 ^ n /\ Resistor(n) = Range(i).R
    /\ pc \in WhileCharging =>
          /\ Prescaler(CS1) = Range(r_index).prescale
          /\ Driven # {}
          /\ \A n \in Driven : Resistor(n) = Range(r_index).R

\* a charge through the 10 kOhm resistor on PF1 is being timed at index 5
\* with the divider by 8
C37_Witness ==
    /\ pc = "sleep_measured"
    /\ r_index = 5
    /\ Driven = {1}
    /\ CS1 = 2
    /\ Prescaler(CS1) = 8
    /\ Resistor(1) = Range(r_index).R
    /\ ~ACO

\* C38: in the build with QUICK_RANGE 1, for every 16-bit value of `timer`
\* and every starting index, rerange returns with the index inside the
\* table; on overflow the index becomes 1 when it was above 1, goes from
\* 1 to 0, and stays 0; otherwise it does not go down.
C38_QuickStaysInBounds ==
    pc \in AfterRerange =>
        /\ r_index \in 0 .. n_ranges - 1
        /\ timer = FullScale =>
              r_index = IF out.idx > 1 THEN 1
                        ELSE IF out.idx > 0 THEN out.idx - 1 ELSE 0
        /\ timer # FullScale => r_index >= out.idx

\* an overflow at the last index has sent the index to 1
C38_Witness ==
    /\ pc = "wait_refresh"
    /\ timer = FullScale /\ out.sign = ">" /\ out.idx = n_ranges - 1
    /\ r_index = 1

\* the reference walk, in unbounded arithmetic: while the projected count
\* is below the threshold of the current row, multiply it by the grow
\* factor of that row and step to the next row
RECURSIVE ReferenceWalk(_, _)
ReferenceWalk(p, idx) ==
    IF p < Range(idx).min
    THEN ReferenceWalk(p * Range(idx).grow, idx + 1)
    ELSE idx

\* C39: in the build with QUICK_RANGE 1, for every captured count and
\* every starting index, the index rerange reaches is the index of the
\* reference walk.
C39_QuickMatchesReference ==
    (pc \in AfterRerange /\ timer # FullScale) =>
        r_index = ReferenceWalk(timer, out.idx)

====
